---- MODULE Spec2Model ----
(***************************************************************************)
(* Cairns fuel monitoring: the upsert pipeline of query.py and the plot    *)
(* data assembler of plots/plot_generator.py.                              *)
(*                                                                         *)
(* Three specifications share the variables below:                         *)
(*   Spec        main() of query.py: fetch, connect, four upserts, commit, *)
(*               sync, run after run;                                      *)
(*   SpecUpsert  the four upsert_* functions applied to a stored state and *)
(*               a batch of rows, then applied again to the same batch;    *)
(*   SpecPlot    get_plot_data of plot_generator.py, one day of the replay *)
(*               loop per step.                                            *)
(*                                                                         *)
(* Values are integers. Prices are held in thousandths of a dollar per     *)
(* litre; a stored TransactionDate is a count of hours of local time.      *)
(***************************************************************************)
EXTENDS Integers, Sequences, FiniteSets, TLC

VARIABLES
    db,          \* the tables as the open connection sees them
    committed,   \* the tables as last committed in the local replica
    remote,      \* the tables of the remote primary
    pc,          \* main(): index in MainSteps of the next statement; 0 when no run is on
    outcome,     \* main(): "none", "running", "done" or "aborted" (an uncaught exception)
    log,         \* main(): the calls of this run that have returned, in order
    frames,      \* main(): brands_df, fuels_df, sites_df, prices_df of this run
    atStart,     \* main(): the committed tables when this run started
    pre,         \* upsert: the tables before the last upsert call
    arg,         \* upsert: the batch of the last upsert call
    last,        \* upsert: which upsert was called last
    okv,         \* upsert: whether the last call returned (TRUE) or raised (FALSE)
    applied,     \* upsert: how many times in a row the batch arg has been applied
    df,          \* plot: the DataFrame given to get_plot_data
    plot_days,   \* plot: the plot_days argument
    loop,        \* plot: position of get_plot_data ("idle", "loop", "done", "error")
    day,         \* plot: the date the replay loop is about to process
    current_prices, \* plot: fuel -> sequence of <<site_id, price>> in insertion order
    plot_data    \* plot: fuel -> [dates, prices, sites]

vars == <<db, committed, remote, pc, outcome, log, frames, atStart,
          pre, arg, last, okv, applied,
          df, plot_days, loop, day, current_prices, plot_data>>

mainVars   == <<db, committed, remote, pc, outcome, log, frames, atStart>>
upsertVars == <<pre, arg, last, okv, applied>>
plotVars   == <<df, plot_days, loop, day, current_prices, plot_data>>

(***************************************************************************)
(* Bounds of the model.                                                    *)
(***************************************************************************)
\* longest batch given to an upsert in SpecUpsert
MaxRows == 3
\* rows per statement of upsert_sites (CHUNK = 1000 in the source, scaled)
SITES_CHUNK == 2
\* rows per statement of upsert_prices (CHUNK = 2000 in the source, scaled)
PRICES_CHUNK == 2

\* None / NaN / SQL NULL
Null == -1

COALESCE(a, b) == IF a # Null THEN a ELSE b

(***************************************************************************)
(* The stored tables. Each table is a set of rows.                         *)
(***************************************************************************)
EmptyStore ==
    [Brands |-> {}, Fuel_Types |-> {}, Sites |-> {}, Price_Records |-> {}]

\* PRAGMA foreign_keys=ON
ForeignKeysOff == FALSE
ForeignKeysOn == TRUE

\* Sites.Brand_ID references Brands(Brand_ID); a NULL reference is allowed
SitesForeignKey(store, row) ==
    row.Brand_ID = Null \/ \E b \in store.Brands : b.Brand_ID = row.Brand_ID

\* Price_Records.Site_ID references Sites, Price_Records.Fuel_ID references Fuel_Types
PricesForeignKey(store, row) ==
    /\ \E s \in store.Sites : s.Site_ID = row.Site_ID
    /\ \E f \in store.Fuel_Types : f.Fuel_ID = row.Fuel_ID

(***************************************************************************)
(* DataFrame helpers.                                                      *)
(***************************************************************************)
RECURSIVE KeepFirst(_, _)
KeepFirst(s, seen) ==
    IF s = <<>> THEN <<>>
    ELSE IF Head(s) \in seen THEN KeepFirst(Tail(s), seen)
    ELSE <<Head(s)>> \o KeepFirst(Tail(s), seen \cup {Head(s)})

\* DataFrame.drop_duplicates(): whole-row duplicates, the first occurrence kept
drop_duplicates(s) == KeepFirst(s, {})

\* rows[i:i+CHUNK] for i in range(0, len(rows), CHUNK)
RECURSIVE Chunks(_, _)
Chunks(rows, n) ==
    IF rows = <<>> THEN <<>>
    ELSE IF Len(rows) <= n THEN <<rows>>
    ELSE <<SubSeq(rows, 1, n)>> \o Chunks(SubSeq(rows, n + 1, Len(rows)), n)

(***************************************************************************)
(* upsert_brands, upsert_fuel_types: one statement per row.                *)
(***************************************************************************)
\* ON CONFLICT(Brand_ID) DO UPDATE SET Name=excluded.Name
BrandsOnConflict(e, r) == [e EXCEPT !.Name = r.Name]

BrandsInsert(T, r) ==
    IF \E e \in T : e.Brand_ID = r.Brand_ID
    THEN {IF e.Brand_ID = r.Brand_ID THEN BrandsOnConflict(e, r) ELSE e : e \in T}
    ELSE T \cup {r}

RECURSIVE BrandsLoop(_, _)
BrandsLoop(T, rows) ==
    IF rows = <<>> THEN T
    ELSE BrandsLoop(
            BrandsInsert(T, [Brand_ID |-> Head(rows).BrandId, Name |-> Head(rows).Name]),
            Tail(rows))

BrandsDropNa(frame) == SelectSeq(frame, LAMBDA r : r.BrandId # Null /\ r.Name # Null)

upsert_brands(store, brands_df) ==
    IF brands_df = <<>> THEN [db |-> store, ok |-> TRUE]
    ELSE [db |-> [store EXCEPT !.Brands =
                     BrandsLoop(@, drop_duplicates(BrandsDropNa(brands_df)))],
          ok |-> TRUE]

\* ON CONFLICT(Fuel_ID) DO UPDATE SET Name=excluded.Name
FuelTypesOnConflict(e, r) == [e EXCEPT !.Name = r.Name]

FuelTypesInsert(T, r) ==
    IF \E e \in T : e.Fuel_ID = r.Fuel_ID
    THEN {IF e.Fuel_ID = r.Fuel_ID THEN FuelTypesOnConflict(e, r) ELSE e : e \in T}
    ELSE T \cup {r}

RECURSIVE FuelTypesLoop(_, _)
FuelTypesLoop(T, rows) ==
    IF rows = <<>> THEN T
    ELSE FuelTypesLoop(
            FuelTypesInsert(T, [Fuel_ID |-> Head(rows).FuelId, Name |-> Head(rows).Name]),
            Tail(rows))

FuelsDropNa(frame) == SelectSeq(frame, LAMBDA r : r.FuelId # Null /\ r.Name # Null)

upsert_fuel_types(store, fuels_df) ==
    IF fuels_df = <<>> THEN [db |-> store, ok |-> TRUE]
    ELSE [db |-> [store EXCEPT !.Fuel_Types =
                     FuelTypesLoop(@, drop_duplicates(FuelsDropNa(fuels_df)))],
          ok |-> TRUE]

(***************************************************************************)
(* upsert_sites: one multi-row statement per chunk of SITES_CHUNK rows.    *)
(***************************************************************************)
\* a slip that reads the wrong excluded column for Name
SitesOnConflictWrongColumn(e, r) ==
    [Site_ID   |-> e.Site_ID,
     Brand_ID  |-> COALESCE(r.Brand_ID, e.Brand_ID),
     Name      |-> COALESCE(r.Address, e.Name),
     Address   |-> COALESCE(r.Address, e.Address),
     Postcode  |-> COALESCE(r.Postcode, e.Postcode),
     Latitude  |-> COALESCE(r.Latitude, e.Latitude),
     Longitude |-> COALESCE(r.Longitude, e.Longitude)]

\* DO UPDATE SET col=excluded.col, without COALESCE
SitesOnConflictReplace(e, r) == r

\* ON CONFLICT(Site_ID) DO UPDATE SET col=COALESCE(excluded.col, Sites.col), ...
SitesOnConflict(e, r) ==
    [Site_ID   |-> e.Site_ID,
     Brand_ID  |-> COALESCE(r.Brand_ID, e.Brand_ID),
     Name      |-> COALESCE(r.Name, e.Name),
     Address   |-> COALESCE(r.Address, e.Address),
     Postcode  |-> COALESCE(r.Postcode, e.Postcode),
     Latitude  |-> COALESCE(r.Latitude, e.Latitude),
     Longitude |-> COALESCE(r.Longitude, e.Longitude)]

SitesInsert(T, r) ==
    IF \E e \in T : e.Site_ID = r.Site_ID
    THEN {IF e.Site_ID = r.Site_ID THEN SitesOnConflict(e, r) ELSE e : e \in T}
    ELSE T \cup {r}

RECURSIVE SitesRows(_, _)
SitesRows(T, rows) ==
    IF rows = <<>> THEN T ELSE SitesRows(SitesInsert(T, Head(rows)), Tail(rows))

\* cur.execute of one chunk: the statement takes effect whole, or raises and
\* leaves the table as it was
SitesStatement(store, chunk) ==
    LET T == SitesRows(store.Sites, chunk)
        touched == {r \in T : \E i \in 1..Len(chunk) : chunk[i].Site_ID = r.Site_ID}
        fine == ~ForeignKeysOn \/ \A r \in touched : SitesForeignKey(store, r)
    IN  IF fine THEN [db |-> [store EXCEPT !.Sites = T], ok |-> TRUE]
        ELSE [db |-> store, ok |-> FALSE]

\* the for loop over the chunks: an exception leaves the loop
RECURSIVE SitesChunks(_, _)
SitesChunks(store, chunks) ==
    IF chunks = <<>> THEN [db |-> store, ok |-> TRUE]
    ELSE LET r == SitesStatement(store, Head(chunks))
         IN  IF r.ok THEN SitesChunks(r.db, Tail(chunks)) ELSE r

upsert_sites(store, sites_df) ==
    IF sites_df = <<>> THEN [db |-> store, ok |-> TRUE]
    ELSE SitesChunks(store, Chunks(sites_df, SITES_CHUNK))

(***************************************************************************)
(* upsert_prices: one multi-row statement per chunk of PRICES_CHUNK rows.  *)
(***************************************************************************)
\* DO UPDATE SET Price=COALESCE(excluded.Price, Price_Records.Price)
PricesOnConflictCoalesce(e, r) == [e EXCEPT !.Price = COALESCE(r.Price, e.Price)]

\* ON CONFLICT(Site_ID, Fuel_ID, TransactionDate) DO UPDATE SET Price=excluded.Price
PricesOnConflict(e, r) == [e EXCEPT !.Price = r.Price]

PriceKey(r) == <<r.Site_ID, r.Fuel_ID, r.TransactionDate>>

PricesInsert(T, r) ==
    IF \E e \in T : PriceKey(e) = PriceKey(r)
    THEN {IF PriceKey(e) = PriceKey(r) THEN PricesOnConflict(e, r) ELSE e : e \in T}
    ELSE T \cup {r}

RECURSIVE PricesRows(_, _)
PricesRows(T, rows) ==
    IF rows = <<>> THEN T ELSE PricesRows(PricesInsert(T, Head(rows)), Tail(rows))

PricesStatement(store, chunk) ==
    LET T == PricesRows(store.Price_Records, chunk)
        touched == {r \in T : \E i \in 1..Len(chunk) : PriceKey(chunk[i]) = PriceKey(r)}
        fine == ~ForeignKeysOn \/ \A r \in touched : PricesForeignKey(store, r)
    IN  IF fine THEN [db |-> [store EXCEPT !.Price_Records = T], ok |-> TRUE]
        ELSE [db |-> store, ok |-> FALSE]

RECURSIVE PricesChunks(_, _)
PricesChunks(store, chunks) ==
    IF chunks = <<>> THEN [db |-> store, ok |-> TRUE]
    ELSE LET r == PricesStatement(store, Head(chunks))
         IN  IF r.ok THEN PricesChunks(r.db, Tail(chunks)) ELSE r

upsert_prices(store, prices_df) ==
    IF prices_df = <<>> THEN [db |-> store, ok |-> TRUE]
    ELSE PricesChunks(store, Chunks(prices_df, PRICES_CHUNK))

(***************************************************************************)
(* main(): the fetched frames and the four upserts in a row.               *)
(***************************************************************************)
\* CAIRNS_TIME_OFFSET = timedelta(hours=10), in ticks of one hour
CAIRNS_TIME_OFFSET == 10

\* the frame fetch_current_price_data returns for the rows of "SitePrices":
\* rename, shift the UTC timestamp to +10:00, drop rows with a missing field,
\* keep the last row of each (Site_ID, Fuel_ID, TransactionDate). Price stays
\* the same integer: the model counts it in 1/PRICE_DIVISOR dollars.
fetch_current_price_data(site_prices) ==
    LET renamed == [i \in DOMAIN site_prices |->
                      [Site_ID |-> site_prices[i].SiteId,
                       Fuel_ID |-> site_prices[i].FuelId,
                       TransactionDate |->
                          IF site_prices[i].TransactionDateUtc = Null THEN Null
                          ELSE site_prices[i].TransactionDateUtc + CAIRNS_TIME_OFFSET,
                       Price |-> site_prices[i].Price]]
        whole(r) == /\ r.Site_ID # Null /\ r.Fuel_ID # Null
                    /\ r.TransactionDate # Null /\ r.Price # Null
        kept == {i \in DOMAIN renamed :
                    /\ whole(renamed[i])
                    /\ \A j \in DOMAIN renamed :
                          (j > i /\ whole(renamed[j]))
                              => PriceKey(renamed[j]) # PriceKey(renamed[i])}
        RECURSIVE Take(_)
        Take(i) == IF i > Len(renamed) THEN <<>>
                   ELSE (IF i \in kept THEN <<renamed[i]>> ELSE <<>>) \o Take(i + 1)
    IN  Take(1)

\* lines 196-199 in a row on one connection; an exception ends the process
\* before commit, and the connection's writes are lost with it
RunUpserts(store, f) ==
    LET b == upsert_brands(store, f.brands)
        u == upsert_fuel_types(b.db, f.fuels)
        t == IF u.ok THEN upsert_sites(u.db, f.sites) ELSE u
        q == IF t.ok THEN upsert_prices(t.db, f.prices) ELSE t
    IN  IF q.ok THEN q ELSE [db |-> store, ok |-> FALSE]

(***************************************************************************)
(* SpecUpsert: an upsert applied to a stored state, then applied again.    *)
(***************************************************************************)
SeqsUpTo(S, n) == UNION {[1..k -> S] : k \in 0..n}

BrandRowInputs == [BrandId : {1, 2, Null}, Name : {101, 102, Null}]
FuelRowInputs  == [FuelId : {1, 2, Null}, Name : {111, 112, Null}]

SiteRow(s, b, n, a, p, la, lo) ==
    [Site_ID |-> s, Brand_ID |-> b, Name |-> n, Address |-> a, Postcode |-> p,
     Latitude |-> la, Longitude |-> lo]

\* brand 2 is in no seeded store: a row that names it breaks the foreign key
SiteRowInputs ==
    UNION {{SiteRow(s, 1, 202, 302, 402, 502, 602),
            SiteRow(s, Null, Null, Null, Null, Null, Null),
            SiteRow(s, Null, 203, Null, 403, Null, 603),
            SiteRow(s, 1, Null, 303, Null, 503, Null),
            SiteRow(s, 2, 202, Null, Null, Null, Null)} : s \in {1, 2}}

PriceRow(s, f, t, p) == [Site_ID |-> s, Fuel_ID |-> f, TransactionDate |-> t, Price |-> p]

\* site 2 and fuel 2 are in no seeded store
PriceRowInputs ==
    {PriceRow(k[1], k[2], k[3], p) :
        k \in {<<1, 1, 10>>, <<1, 1, 11>>, <<2, 1, 10>>, <<1, 2, 10>>},
        p \in {1500, 1600, Null}}

\* stored states to start from, each built by the upserts from the empty store
SeedDims ==
    upsert_fuel_types(upsert_brands(EmptyStore, <<[BrandId |-> 1, Name |-> 101]>>).db,
                      <<[FuelId |-> 1, Name |-> 111]>>).db
SeedSiteFull  == upsert_sites(SeedDims, <<SiteRow(1, 1, 201, 301, 401, 501, 601)>>).db
SeedSiteNulls == upsert_sites(SeedDims, <<SiteRow(1, Null, Null, Null, Null, Null, Null)>>).db
SeedPrice     == upsert_prices(SeedSiteFull, <<PriceRow(1, 1, 10, 1500)>>).db
SeedPriceNull == upsert_prices(SeedSiteFull, <<PriceRow(1, 1, 10, Null)>>).db
SeedStores ==
    {EmptyStore, SeedDims, SeedSiteFull, SeedSiteNulls, SeedPrice, SeedPriceNull}

NoFrames == [brands |-> <<>>, fuels |-> <<>>, sites |-> <<>>, prices |-> <<>>]

\* what the API may answer in main(). Brand 2, site 2 and fuel 2 are never
\* among the answers for their own tables.
MaxFetchRows == 2
BrandsAnswers ==
    {<<>>, <<[BrandId |-> 1, Name |-> 101]>>, <<[BrandId |-> 1, Name |-> 102]>>,
     <<[BrandId |-> 1, Name |-> 101], [BrandId |-> 1, Name |-> 102]>>}
FuelsAnswers  == {<<>>, <<[FuelId |-> 1, Name |-> 111]>>}
SitesAnswers  ==
    {<<>>,
     <<SiteRow(1, 1, 201, 301, 401, 501, 601)>>,
     <<SiteRow(1, Null, Null, Null, Null, Null, Null)>>,
     <<SiteRow(1, 2, 202, Null, Null, Null, Null)>>,
     <<SiteRow(1, Null, 203, Null, 403, Null, 603), SiteRow(1, 1, Null, 303, Null, 503, Null)>>}
RawPrice(s, f, t, p) == [SiteId |-> s, FuelId |-> f, TransactionDateUtc |-> t, Price |-> p]
PricesAnswers == SeqsUpTo({RawPrice(1, 1, 0, 1500), RawPrice(1, 1, 0, 1600),
                           RawPrice(2, 1, 0, 1500), RawPrice(1, 1, 0, Null)},
                          MaxFetchRows)

MainIdle ==
    /\ committed = EmptyStore /\ remote = EmptyStore
    /\ pc = 0 /\ outcome = "none" /\ log = <<>> /\ frames = NoFrames
    /\ atStart = EmptyStore

PlotIdle ==
    /\ df = {} /\ plot_days = 0 /\ loop = "idle" /\ day = 0
    /\ current_prices = <<>> /\ plot_data = <<>>

InitUpsert ==
    /\ db \in SeedStores
    /\ pre = db /\ arg = <<>> /\ last = "none" /\ okv = TRUE /\ applied = 0
    /\ MainIdle /\ PlotIdle

Upsert(name, store, batch) ==
    CASE name = "brands"     -> upsert_brands(store, batch)
      [] name = "fuel_types" -> upsert_fuel_types(store, batch)
      [] name = "sites"      -> upsert_sites(store, batch)
      [] name = "prices"     -> upsert_prices(store, batch)
      [] name = "run"        -> RunUpserts(store, batch)

Call(name, batch) ==
    /\ applied = 0
    /\ pre' = db /\ arg' = batch /\ last' = name /\ applied' = 1
    /\ db' = Upsert(name, db, batch).db
    /\ okv' = Upsert(name, db, batch).ok
    /\ UNCHANGED <<committed, remote, pc, outcome, log, frames, atStart>>
    /\ UNCHANGED plotVars

CallUpsertBrands    == applied = 0 /\ \E b \in SeqsUpTo(BrandRowInputs, MaxRows) : Call("brands", b)
CallUpsertFuelTypes == applied = 0 /\ \E b \in SeqsUpTo(FuelRowInputs, MaxRows) : Call("fuel_types", b)
CallUpsertSites     == applied = 0 /\ \E b \in SeqsUpTo(SiteRowInputs, MaxRows) : Call("sites", b)
CallUpsertPrices    == applied = 0 /\ \E b \in SeqsUpTo(PriceRowInputs, MaxRows) : Call("prices", b)

\* the four upserts of one run of main() on the same fetched data
CallRunUpserts ==
    /\ applied = 0
    /\ \E b \in BrandsAnswers, f \in FuelsAnswers, t \in SitesAnswers, q \in PricesAnswers :
          Call("run", [brands |-> b, fuels |-> f, sites |-> t,
                       prices |-> fetch_current_price_data(q)])

\* the same batch once more on the state the first application left
CallAgain ==
    /\ applied = 1
    /\ pre' = db /\ applied' = 2
    /\ db' = Upsert(last, db, arg).db
    /\ okv' = Upsert(last, db, arg).ok
    /\ UNCHANGED <<arg, last>>
    /\ UNCHANGED <<committed, remote, pc, outcome, log, frames, atStart>>
    /\ UNCHANGED plotVars

NextUpsert ==
    \/ CallUpsertBrands
    \/ CallUpsertFuelTypes
    \/ CallUpsertSites
    \/ CallUpsertPrices
    \/ CallRunUpserts
    \/ CallAgain

SpecUpsert == InitUpsert /\ [][NextUpsert]_vars

(***************************************************************************)
(* Claims about the upserts (SpecUpsert).                                  *)
(***************************************************************************)
MaxOf(S) == CHOOSE x \in S : \A y \in S : y <= x

SiteCols == {"Brand_ID", "Name", "Address", "Postcode", "Latitude", "Longitude"}

\* C1 (first half): the batch applied a second time leaves the tables as the
\* first application left them, and returns or raises as the first did
C1_UpsertTwiceIsOnce ==
    applied = 2 => db = pre

\* C1 (whole): idempotence of each upsert and of the four in main's order
C1_Idempotent ==
    /\ C1_UpsertTwiceIsOnce
    /\ applied = 1 => /\ Upsert(last, db, arg).db = db
                      /\ Upsert(last, db, arg).ok = okv

C1_Witness ==
    /\ applied = 2 /\ last = "sites" /\ okv /\ db # EmptyStore
    /\ \E i, j \in DOMAIN arg :
          /\ i < j /\ arg[i].Site_ID = arg[j].Site_ID
          /\ arg[i].Name # Null /\ arg[j].Name # Null /\ arg[i].Name # arg[j].Name

\* the value a column holds after one incoming value v met the stored value old
Merged(v, old) == IF v # Null THEN v ELSE old

C2_Brands ==
    last = "brands" =>
      \A e \in pre.Brands :
        LET inc == {i \in DOMAIN arg : arg[i].BrandId = e.Brand_ID}
        IN  \E a \in db.Brands :
              /\ a.Brand_ID = e.Brand_ID
              /\ Cardinality(inc) = 1 =>
                    \A i \in inc : a.Name = Merged(arg[i].Name, e.Name)
              /\ e.Name # Null => a.Name # Null
              /\ a.Name \in {e.Name} \cup ({arg[i].Name : i \in inc} \ {Null})

C2_FuelTypes ==
    last = "fuel_types" =>
      \A e \in pre.Fuel_Types :
        LET inc == {i \in DOMAIN arg : arg[i].FuelId = e.Fuel_ID}
        IN  \E a \in db.Fuel_Types :
              /\ a.Fuel_ID = e.Fuel_ID
              /\ Cardinality(inc) = 1 =>
                    \A i \in inc : a.Name = Merged(arg[i].Name, e.Name)
              /\ e.Name # Null => a.Name # Null
              /\ a.Name \in {e.Name} \cup ({arg[i].Name : i \in inc} \ {Null})

C2_Sites ==
    last = "sites" =>
      \A e \in pre.Sites :
        LET inc == {i \in DOMAIN arg : arg[i].Site_ID = e.Site_ID}
        IN  \E a \in db.Sites :
              /\ a.Site_ID = e.Site_ID
              /\ \A c \in SiteCols :
                    LET set == {i \in inc : arg[i][c] # Null}
                    IN  /\ Cardinality(inc) = 1 =>
                              \A i \in inc : a[c] = Merged(arg[i][c], e[c])
                        /\ e[c] # Null => a[c] # Null
                        \* several rows for one key: the last non-null value stands
                        /\ a[c] = IF set = {} THEN e[c] ELSE arg[MaxOf(set)][c]

\* C2: on a key that is already stored, a column takes the incoming value when
\* that is not null and keeps the stored value when it is null, so that no
\* stored value is ever replaced by null (Brands, Fuel_Types, Sites)
C2_CoalescePreserve ==
    (applied >= 1 /\ okv) => (C2_Brands /\ C2_FuelTypes /\ C2_Sites)

C2_Witness ==
    /\ applied = 1 /\ okv /\ last = "sites"
    /\ \E e \in pre.Sites : \E i \in DOMAIN arg : \E a \in db.Sites :
          /\ arg[i].Site_ID = e.Site_ID /\ a.Site_ID = e.Site_ID
          /\ arg[i].Address = Null /\ e.Address # Null /\ a.Address = e.Address
          /\ arg[i].Name # Null /\ e.Name # Null /\ arg[i].Name # e.Name
          /\ a.Name = arg[i].Name

\* C3: on a key that is already stored, Price becomes the incoming Price, null
\* or not, and the table holds one row for the key
C3_ReplacePrice ==
    (applied >= 1 /\ okv /\ last = "prices") =>
      /\ \A a, b \in db.Price_Records : PriceKey(a) = PriceKey(b) => a = b
      /\ \A e \in pre.Price_Records :
           LET inc == {i \in DOMAIN arg : PriceKey(arg[i]) = PriceKey(e)}
           IN  inc # {} =>
                 \E a \in db.Price_Records :
                    /\ PriceKey(a) = PriceKey(e)
                    /\ a.Price = arg[MaxOf(inc)].Price

C3_Witness ==
    /\ applied = 1 /\ okv /\ last = "prices"
    /\ \E e \in pre.Price_Records : \E i \in DOMAIN arg : \E a \in db.Price_Records :
          /\ PriceKey(arg[i]) = PriceKey(e) /\ PriceKey(a) = PriceKey(e)
          /\ e.Price # Null /\ arg[i].Price = Null /\ a.Price = Null
          /\ Cardinality(db.Price_Records) = Cardinality(pre.Price_Records)

\* the chunks of the last call, and the result of applying them in the order p
ChunksOf(name, batch) ==
    IF name = "sites" THEN Chunks(batch, SITES_CHUNK) ELSE Chunks(batch, PRICES_CHUNK)

InOrder(name, store, chunks, p) ==
    LET permuted == [i \in DOMAIN chunks |-> chunks[p[i]]]
    IN  IF name = "sites" THEN SitesChunks(store, permuted)
        ELSE PricesChunks(store, permuted)

Orders(chunks) ==
    {p \in [DOMAIN chunks -> DOMAIN chunks] : \A i, j \in DOMAIN chunks : p[i] = p[j] => i = j}

\* what a chunk leaves in a column of a site (nulls overwrite nothing), or Null
SiteLeft(chunk, k, c) ==
    LET set == {i \in DOMAIN chunk : chunk[i].Site_ID = k /\ chunk[i][c] # Null}
    IN  IF set = {} THEN Null ELSE chunk[MaxOf(set)][c]

\* the chunks that write a column of a site agree on the value they leave
SitesChunksAgree(chunks) ==
    \A x, y \in DOMAIN chunks : \A k \in {r.Site_ID : r \in SiteRowInputs} :
      \A c \in SiteCols :
        (SiteLeft(chunks[x], k, c) # Null /\ SiteLeft(chunks[y], k, c) # Null)
            => SiteLeft(chunks[x], k, c) = SiteLeft(chunks[y], k, c)

\* the chunks that hold a price key agree on the Price they leave
PricesChunksAgree(chunks) ==
    \A x, y \in DOMAIN chunks :
      \A i \in DOMAIN chunks[x] : \A j \in DOMAIN chunks[y] :
        LET k == PriceKey(chunks[x][i])
            lastx == MaxOf({m \in DOMAIN chunks[x] : PriceKey(chunks[x][m]) = k})
            lasty == MaxOf({m \in DOMAIN chunks[y] : PriceKey(chunks[y][m]) = k})
        IN  PriceKey(chunks[y][j]) = k => chunks[x][lastx].Price = chunks[y][lasty].Price

ChunksAgree(name, chunks) ==
    IF name = "sites" THEN SitesChunksAgree(chunks) ELSE PricesChunksAgree(chunks)

\* C9 as stated: whatever the rows, every order of the chunks that the store
\* accepts leaves the tables that the order of the code leaves
C9_AnyChunkOrder ==
    (applied = 1 /\ okv /\ last \in {"sites", "prices"}) =>
      \A p \in Orders(ChunksOf(last, arg)) :
        InOrder(last, pre, ChunksOf(last, arg), p).ok
            => InOrder(last, pre, ChunksOf(last, arg), p).db = db

\* C9 amended: when the chunks that write a key agree on the value they leave
\* for it, every order of the chunks is accepted or refused alike, and every
\* accepted order leaves the same tables
C9_AgreeingChunksAnyOrder ==
    (applied = 1 /\ last \in {"sites", "prices"}
        /\ ChunksAgree(last, ChunksOf(last, arg))) =>
      \A p \in Orders(ChunksOf(last, arg)) :
        /\ InOrder(last, pre, ChunksOf(last, arg), p).ok = okv
        /\ okv => InOrder(last, pre, ChunksOf(last, arg), p).db = db

\* two chunks write the same site, one its Name and the other its Address
C9_Witness ==
    /\ applied = 1 /\ okv /\ last = "sites"
    /\ Len(ChunksOf(last, arg)) >= 2
    /\ ChunksAgree(last, ChunksOf(last, arg))
    /\ \E k \in {1, 2} :
          /\ SiteLeft(ChunksOf(last, arg)[1], k, "Name") # Null
          /\ SiteLeft(ChunksOf(last, arg)[1], k, "Address") = Null
          /\ SiteLeft(ChunksOf(last, arg)[2], k, "Address") # Null
          /\ SiteLeft(ChunksOf(last, arg)[2], k, "Name") = Null

(***************************************************************************)
(* Spec: main() of query.py, statement by statement, run after run.        *)
(***************************************************************************)
\* main() with upsert_prices called before upsert_sites
MainStepsPricesFirst ==
    <<"fetch_brands_data", "fetch_fuel_types_data", "fetch_site_data",
      "fetch_current_price_data", "connect",
      "upsert_brands", "upsert_fuel_types", "upsert_prices", "upsert_sites",
      "commit", "sync">>

\* the statements of main(), in program order
MainSteps ==
    <<"fetch_brands_data", "fetch_fuel_types_data", "fetch_site_data",
      "fetch_current_price_data", "connect",
      "upsert_brands", "upsert_fuel_types", "upsert_sites", "upsert_prices",
      "commit", "sync">>

At(step) == pc \in DOMAIN MainSteps /\ MainSteps[pc] = step

\* the statement returned: on to the next one, or out of main()
Returned(step) ==
    /\ log' = Append(log, step)
    /\ IF pc = Len(MainSteps)
       THEN pc' = 0 /\ outcome' = "done"
       ELSE pc' = pc + 1 /\ outcome' = outcome

\* an exception that a handler swallows, so that main() goes on
RaisedAndSwallowed ==
    /\ log' = log
    /\ IF pc = Len(MainSteps)
       THEN pc' = 0 /\ outcome' = "done"
       ELSE pc' = pc + 1 /\ outcome' = outcome
    /\ UNCHANGED <<db, committed, remote, frames, atStart>>

\* the statement raised: main() has no handler, the process ends, and what
\* the connection wrote since the last commit is lost
Raised ==
    /\ pc' = 0 /\ outcome' = "aborted"
    /\ db' = committed
    /\ UNCHANGED <<committed, remote, log, frames, atStart>>

StartRun ==
    /\ pc = 0
    /\ pc' = 1 /\ outcome' = "running" /\ log' = <<>> /\ frames' = NoFrames
    /\ atStart' = committed
    /\ UNCHANGED <<db, committed, remote>>
    /\ UNCHANGED upsertVars /\ UNCHANGED plotVars

\* request.raise_for_status() on a non-success answer
FetchFails ==
    /\ \E step \in {"fetch_brands_data", "fetch_fuel_types_data", "fetch_site_data",
                    "fetch_current_price_data"} : At(step)
    /\ Raised
    /\ UNCHANGED upsertVars /\ UNCHANGED plotVars

FetchBrands ==
    /\ At("fetch_brands_data")
    /\ \E b \in BrandsAnswers : frames' = [frames EXCEPT !.brands = b]
    /\ Returned("fetch_brands_data")
    /\ UNCHANGED <<db, committed, remote, atStart>>
    /\ UNCHANGED upsertVars /\ UNCHANGED plotVars

FetchFuelTypes ==
    /\ At("fetch_fuel_types_data")
    /\ \E f \in FuelsAnswers : frames' = [frames EXCEPT !.fuels = f]
    /\ Returned("fetch_fuel_types_data")
    /\ UNCHANGED <<db, committed, remote, atStart>>
    /\ UNCHANGED upsertVars /\ UNCHANGED plotVars

\* df[list(...)] raises KeyError on the frame of an empty answer
FetchSites ==
    /\ At("fetch_site_data")
    /\ \E t \in SitesAnswers :
          IF t = <<>> THEN Raised
          ELSE /\ frames' = [frames EXCEPT !.sites = t]
               /\ Returned("fetch_site_data")
               /\ UNCHANGED <<db, committed, remote, atStart>>
    /\ UNCHANGED upsertVars /\ UNCHANGED plotVars

FetchPrices ==
    /\ At("fetch_current_price_data")
    /\ \E q \in PricesAnswers :
          IF q = <<>> THEN Raised
          ELSE /\ frames' = [frames EXCEPT !.prices = fetch_current_price_data(q)]
               /\ Returned("fetch_current_price_data")
               /\ UNCHANGED <<db, committed, remote, atStart>>
    /\ UNCHANGED upsertVars /\ UNCHANGED plotVars

\* libsql.connect on the local replica, cursor, PRAGMA
Connect ==
    /\ At("connect")
    /\ db' = committed
    /\ Returned("connect")
    /\ UNCHANGED <<committed, remote, frames, atStart>>
    /\ UNCHANGED upsertVars /\ UNCHANGED plotVars

UpsertStep(step, r) ==
    /\ At(step)
    /\ IF r.ok
       THEN /\ db' = r.db
            /\ Returned(step)
            /\ UNCHANGED <<committed, remote, frames, atStart>>
       ELSE Raised
    /\ UNCHANGED upsertVars /\ UNCHANGED plotVars

UpsertBrands    == UpsertStep("upsert_brands", upsert_brands(db, frames.brands))
UpsertFuelTypes == UpsertStep("upsert_fuel_types", upsert_fuel_types(db, frames.fuels))
UpsertSites     == UpsertStep("upsert_sites", upsert_sites(db, frames.sites))
UpsertPrices    == UpsertStep("upsert_prices", upsert_prices(db, frames.prices))

\* connection.commit(): the writes become durable and reach the primary
Commit ==
    /\ At("commit")
    /\ committed' = db /\ remote' = db
    /\ Returned("commit")
    /\ UNCHANGED <<db, frames, atStart>>
    /\ UNCHANGED upsertVars /\ UNCHANGED plotVars

\* connection.sync(): the replica takes the state of the primary
Sync ==
    /\ At("sync")
    /\ committed' = remote /\ db' = remote
    /\ Returned("sync")
    /\ UNCHANGED <<remote, frames, atStart>>
    /\ UNCHANGED upsertVars /\ UNCHANGED plotVars

Init ==
    /\ db = EmptyStore
    /\ pre = EmptyStore /\ arg = <<>> /\ last = "none" /\ okv = TRUE /\ applied = 0
    /\ MainIdle /\ PlotIdle

Next ==
    \/ StartRun
    \/ FetchFails
    \/ FetchBrands
    \/ FetchFuelTypes
    \/ FetchSites
    \/ FetchPrices
    \/ Connect
    \/ UpsertBrands
    \/ UpsertFuelTypes
    \/ UpsertSites
    \/ UpsertPrices
    \/ Commit
    \/ Sync

Spec == Init /\ [][Next]_vars

(***************************************************************************)
(* Claims about main() (Spec).                                             *)
(***************************************************************************)
InLog(step) == \E i \in DOMAIN log : log[i] = step

IsPrefix(a, b) == Len(a) <= Len(b) /\ a = SubSeq(b, 1, Len(a))

FetchCalls  == {"fetch_brands_data", "fetch_fuel_types_data", "fetch_site_data",
                "fetch_current_price_data"}
UpsertCalls == {"upsert_brands", "upsert_fuel_types", "upsert_sites", "upsert_prices"}

Writes == SelectSeq(log, LAMBDA x : x \in UpsertCalls \cup {"commit", "sync"})

\* C4: within a run the Brands upsert returns before the Fuel_Types upsert,
\* that before the Sites upsert, that before the Price_Records upsert; commit
\* comes after the four, and sync after commit
C4_DependencyOrder ==
    IsPrefix(Writes, <<"upsert_brands", "upsert_fuel_types", "upsert_sites",
                       "upsert_prices", "commit", "sync">>)

C4_Witness ==
    /\ outcome = "done" /\ Len(Writes) = 6
    /\ committed.Price_Records # {} /\ committed # atStart

RefIntegrity(store) ==
    /\ \A p \in store.Price_Records :
          /\ \E t \in store.Sites : t.Site_ID = p.Site_ID
          /\ \E f \in store.Fuel_Types : f.Fuel_ID = p.Fuel_ID
    /\ \A t \in store.Sites :
          t.Brand_ID # Null => \E b \in store.Brands : b.Brand_ID = t.Brand_ID

\* a fetched price whose site or fuel type is not stored has no row
Dangling(store, r) ==
    \/ ~\E t \in store.Sites : t.Site_ID = r.Site_ID
    \/ ~\E f \in store.Fuel_Types : f.Fuel_ID = r.Fuel_ID

\* C5: in every state of every run, each Price_Records row names a stored
\* site and a stored fuel type, each site with a brand names a stored brand,
\* and a fetched price that names neither gets no row
C5_ReferentialIntegrity ==
    /\ RefIntegrity(db) /\ RefIntegrity(committed) /\ RefIntegrity(remote)
    /\ \A i \in DOMAIN frames.prices :
          Dangling(db, frames.prices[i]) =>
              \A store \in {db, committed, remote} :
                  ~\E p \in store.Price_Records : PriceKey(p) = PriceKey(frames.prices[i])

C5_Witness ==
    /\ outcome = "aborted" /\ InLog("upsert_sites") /\ ~InLog("upsert_prices")
    /\ \E i \in DOMAIN frames.prices : Dangling(db, frames.prices[i])
    /\ committed.Sites # {}

\* C10: a failed fetch ends the run before any connection or upsert; a failed
\* upsert ends it without retry, commit or sync, and the committed and remote
\* tables are those of the start of the run; commit comes only after the
\* four fetches and the four upserts have returned
C10_AbortWithoutCommit ==
    /\ outcome = "aborted" =>
          /\ pc = 0 /\ ~InLog("commit") /\ ~InLog("sync")
          /\ committed = atStart /\ remote = atStart /\ db = atStart
    /\ (outcome = "aborted" /\ \E f \in FetchCalls : ~InLog(f)) =>
          /\ ~InLog("connect")
          /\ \A u \in UpsertCalls : ~InLog(u)
    /\ InLog("commit") => \A x \in FetchCalls \cup UpsertCalls : InLog(x)
    /\ \A i, j \in DOMAIN log : log[i] = log[j] => i = j
    /\ ~InLog("commit") => (committed = atStart /\ remote = atStart)

\* the Sites upsert wrote a site, the Price_Records upsert raised, and the
\* site is not in the committed tables
C10_Witness ==
    /\ outcome = "aborted" /\ InLog("upsert_sites")
    /\ committed.Sites = {} /\ frames.sites # <<>>

(***************************************************************************)
(* SpecPlot: get_plot_data of plots/plot_generator.py.                     *)
(*                                                                         *)
(* A row of df is [site_id, fuel_name, transaction_datetime,               *)
(* transaction_date, price]. A dict is a function; list(sites.values()) is *)
(* kept as the bag of the values (price -> number of sites), the order of  *)
(* the list being that of an unstable sort.                                *)
(***************************************************************************)
\* most rows of a DataFrame given to get_plot_data
MaxRecords == 3
\* largest plot_days given to get_plot_data
MaxPlotDays == 2

\* max_price=5.0 in main(), in thousandths of a dollar
max_price == 5000

excluded_fuels == {"Premium Diesel", "Premium Unleaded 95", "Premium Unleaded 98", "LPG"}

\* df[df['price'] <= max_price], with every row kept
NoCeiling(frame) == frame

\* df[df['price'] <= max_price]; a comparison with NaN is False
Ceiling(frame) == {r \in frame : r.price # Null /\ r.price <= max_price}

MinOf(S) == CHOOSE x \in S : \A y \in S : x <= y

\* all_dates starting at the plot window instead of the first record
start_date_in_window(frame, days) ==
    LET first == MinOf({r.transaction_date : r \in frame})
        from  == MaxOf({r.transaction_date : r \in frame}) - days
    IN  IF first >= from THEN first ELSE from

start_date(frame, days) == MinOf({r.transaction_date : r \in frame})
end_date(frame) == MaxOf({r.transaction_date : r \in frame})
plot_start_date(frame, days) == end_date(frame) - days

\* if d > plot_start_date
InWindowStrict(d, frame, days) == d > plot_start_date(frame, days)

\* if d >= plot_start_date
InWindow(d, frame, days) == d >= plot_start_date(frame, days)

Put(dict, k, v) == [x \in DOMAIN dict \cup {k} |-> IF x = k THEN v ELSE dict[x]]

\* the rows of one day, in the order of transaction_datetime:
\* current_prices[row['fuel_name']][row['site_id']] = row['price']
RECURSIVE ApplyRows(_, _)
ApplyRows(cp, R) ==
    IF R = {} THEN cp
    ELSE LET r == CHOOSE x \in R :
                     \A y \in R : x.transaction_datetime <= y.transaction_datetime
         IN  ApplyRows([cp EXCEPT ![r.fuel_name] = Put(@, r.site_id, r.price)], R \ {r})

\* list(sites.values()) as a bag
Values(dict) ==
    [v \in {dict[k] : k \in DOMAIN dict} |-> Cardinality({k \in DOMAIN dict : dict[k] = v})]

\* step 2 of the loop body for date d
Collect(pd, cp, d) ==
    LET shown == {f \in DOMAIN cp : f \notin excluded_fuels /\ DOMAIN cp[f] # {}}
    IN  [f \in DOMAIN pd \cup shown |->
            IF f \in shown
            THEN LET old == IF f \in DOMAIN pd THEN pd[f]
                            ELSE [dates |-> <<>>, prices |-> <<>>]
                 IN  [dates |-> Append(old.dates, d),
                      prices |-> Append(old.prices, Values(cp[f]))]
            ELSE pd[f]]

PlotRow(s, f, at, d, p) ==
    [site_id |-> s, fuel_name |-> f, transaction_datetime |-> at,
     transaction_date |-> d, price |-> p]

\* two ticks on date 0, none on date 1, one on date 2
Stamps == {<<0, 0>>, <<1, 0>>, <<4, 2>>}

PlotRowInputs ==
    {PlotRow(s, "Unleaded", t[1], t[2], p) : s \in {1, 2}, t \in Stamps, p \in {1500, 1600, 9000}}
    \cup {PlotRow(1, "Diesel", t[1], t[2], p) : t \in Stamps, p \in {1500, 9000}}
    \cup {PlotRow(1, "LPG", t[1], t[2], 1500) : t \in Stamps}

RECURSIVE SetsUpTo(_, _)
SetsUpTo(U, n) ==
    IF n = 0 THEN {{}}
    ELSE LET smaller == SetsUpTo(U, n - 1)
         IN  smaller \cup {S \cup {x} : S \in smaller, x \in U}

\* Price_Records holds one row for a site, a fuel type and a timestamp
OneRowPerStamp(frame) ==
    \A a, b \in frame :
        (a.site_id = b.site_id /\ a.fuel_name = b.fuel_name
            /\ a.transaction_datetime = b.transaction_datetime) => a = b

InitPlot ==
    /\ df \in {S \in SetsUpTo(PlotRowInputs, MaxRecords) : OneRowPerStamp(S)}
    /\ plot_days \in 0..MaxPlotDays
    /\ loop = "idle" /\ day = 0 /\ current_prices = <<>> /\ plot_data = <<>>
    /\ db = EmptyStore
    /\ pre = EmptyStore /\ arg = <<>> /\ last = "none" /\ okv = TRUE /\ applied = 0
    /\ MainIdle

\* lines 51-63: sort, filter, the date range, the empty state. With no row
\* left, min() is NaN and end_date - timedelta raises.
PlotEnter ==
    /\ loop = "idle"
    /\ IF Ceiling(df) = {}
       THEN /\ loop' = "error"
            /\ UNCHANGED <<day, current_prices, plot_data>>
       ELSE /\ loop' = "loop"
            /\ day' = start_date(Ceiling(df), plot_days)
            /\ current_prices' = [f \in {r.fuel_name : r \in Ceiling(df)} |-> <<>>]
            /\ plot_data' = <<>>
    /\ UNCHANGED <<df, plot_days>>
    /\ UNCHANGED mainVars /\ UNCHANGED upsertVars

\* one pass of "for current_datetime in all_dates"; after the last, return
PlotDay ==
    /\ loop = "loop"
    /\ LET cp == ApplyRows(current_prices,
                           {r \in Ceiling(df) : r.transaction_date = day})
       IN  /\ current_prices' = cp
           /\ plot_data' = IF InWindow(day, Ceiling(df), plot_days)
                           THEN Collect(plot_data, cp, day) ELSE plot_data
    /\ IF day >= end_date(Ceiling(df))
       THEN loop' = "done" /\ day' = day
       ELSE loop' = "loop" /\ day' = day + 1
    /\ UNCHANGED <<df, plot_days>>
    /\ UNCHANGED mainVars /\ UNCHANGED upsertVars

NextPlot ==
    \/ PlotEnter
    \/ PlotDay

SpecPlot == InitPlot /\ [][NextPlot]_vars

(***************************************************************************)
(* Claims about get_plot_data (SpecPlot).                                  *)
(***************************************************************************)
\* the transactions of a fuel type on or before date d that pass the ceiling
Known(f, d) ==
    {r \in df : /\ r.fuel_name = f /\ r.transaction_date <= d
                /\ r.price # Null /\ r.price <= max_price}

\* the price of a site's chronologically latest such transaction
LatestPrice(f, site, d) ==
    LET mine == {r \in Known(f, d) : r.site_id = site}
        r == CHOOSE x \in mine : \A y \in mine : y.transaction_datetime <= x.transaction_datetime
    IN  r.price

\* one price per site that has such a transaction, as a bag
CarriedForward(f, d) ==
    LET sites == {r.site_id : r \in Known(f, d)}
    IN  [v \in {LatestPrice(f, k, d) : k \in sites} |->
            Cardinality({k \in sites : LatestPrice(f, k, d) = v})]

Fuels == {r.fuel_name : r \in df}

\* the dates the loop has been through
Replayed == {r.transaction_date : r \in {x \in df : x.price # Null /\ x.price <= max_price}}
LastDate == MaxOf(Replayed)
FirstDate == MinOf(Replayed)
Passed ==
    IF loop = "done" THEN FirstDate..LastDate
    ELSE IF loop = "loop" THEN FirstDate..(day - 1)
    ELSE {}

\* the plot window: the dates from plot_days before the last record to the
\* last record, and not before the first record
Window == {d \in FirstDate..LastDate : d >= LastDate - plot_days}

\* C6: each snapshot of a fuel type on a date holds one price for each site
\* with a transaction on or before that date, in or before the window, and
\* the price is that of the site's latest such transaction; a fuel type with
\* such a site on a date of the window that the loop has passed has a snapshot
C6_CarryForward ==
    loop \in {"loop", "done"} =>
      /\ \A f \in DOMAIN plot_data : \A i \in DOMAIN plot_data[f].dates :
            plot_data[f].prices[i] = CarriedForward(f, plot_data[f].dates[i])
      /\ \A f \in Fuels \ excluded_fuels : \A d \in Passed \cap Window :
            Known(f, d) # {} =>
                /\ f \in DOMAIN plot_data
                /\ \E i \in DOMAIN plot_data[f].dates : plot_data[f].dates[i] = d

\* site 1 sold at 1500 on date 0 and at 1600 on date 2; the window starts on
\* date 1, where the snapshot holds the 1500 of before the window
C6_Witness ==
    /\ loop = "done" /\ plot_days = 1
    /\ PlotRow(1, "Unleaded", 0, 0, 1500) \in df
    /\ PlotRow(1, "Unleaded", 4, 2, 1600) \in df
    /\ "Unleaded" \in DOMAIN plot_data
    /\ plot_data["Unleaded"].dates = <<1, 2>>
    /\ plot_data["Unleaded"].prices[1] = (1500 :> 1)
    /\ plot_data["Unleaded"].prices[2] = (1600 :> 1)

\* C7: no snapshot holds a price above max_price, and a fuel type whose every
\* observation is above max_price has no key in plot_data
C7_Ceiling ==
    /\ \A f \in DOMAIN plot_data : \A i \in DOMAIN plot_data[f].prices :
          \A v \in DOMAIN plot_data[f].prices[i] : v <= max_price
    /\ \A f \in Fuels :
          (\A r \in df : r.fuel_name = f => r.price > max_price)
              => f \notin DOMAIN plot_data

C7_Witness ==
    /\ loop = "done"
    /\ \E r \in df : r.fuel_name = "Diesel"
    /\ \A r \in df : r.fuel_name = "Diesel" => r.price > max_price
    /\ DOMAIN plot_data = {"Unleaded"}
    /\ \E r \in df : r.fuel_name = "Unleaded" /\ r.price > max_price

====
